---- MODULE Spec2Model ----
(***************************************************************************)
(* Model of the LLM orchestration core of Meaningful-Announcements         *)
(* (aiService.js): extractFeatures, generateInfographicHTML, generateGuide *)
(* and the text clean-up that generateGuide applies to the guide text,     *)
(* and of the two routes of index.js that call it and keep the in-memory   *)
(* cache of extracted articles.                                            *)
(*                                                                         *)
(* Texts are sequences of tokens.  A token stands for one character (a     *)
(* backtick, written "tick", a blank, a line feed, a JSON punctuation      *)
(* mark) or for a fixed run of characters that the regular expressions of  *)
(* the source treat as a unit ("<h2", "</h2>", "Infographic", "html",      *)
(* "json", a JSON key name).                                               *)
(***************************************************************************)
EXTENDS Integers, Sequences, FiniteSets, TLC

VARIABLES
    efPc,        \* extractFeatures: "idle" | "awaiting" | "settled" | "done"
    efVersion,   \* which of the two versions of extractFeatures in aiService.js runs
    efProvider,  \* the provider argument of extractFeatures
    efCall,      \* the outstanding provider call of extractFeatures
    efStub,      \* what the stubbed backend built the response of efCall from
    efResult,    \* how the promise returned by extractFeatures settled
    ggPc,        \* generateGuide: "idle" | "awaiting" | "done"
    ggProvider,  \* the provider argument of generateGuide
    textCall,    \* textPromise: the guide-text call
    infoCall,    \* the callGeminiV1API call made by generateInfographicHTML
    infographicPromise, \* the promise returned by generateInfographicHTML
    ggResult,    \* how the promise returned by generateGuide settled
    requests,    \* provider requests issued so far, in order
    sanRaw,      \* clean-up pipeline: the raw text it was first applied to
    sanOut,      \* clean-up pipeline: the outputs of its successive applications
    extractedArticlesCache, \* index.js: the in-memory cache of extracted articles
    http         \* index.js: the requests of the web server and how far each has run

vars == <<efPc, efVersion, efProvider, efCall, efStub, efResult,
          ggPc, ggProvider, textCall, infoCall, infographicPromise, ggResult,
          requests, sanRaw, sanOut, extractedArticlesCache, http>>

efVars == <<efPc, efVersion, efProvider, efCall, efStub, efResult>>
ggVars == <<ggPc, ggProvider, textCall, infoCall, infographicPromise, ggResult>>
sanVars == <<sanRaw, sanOut>>
webVars == <<extractedArticlesCache, http>>

\* ------------------------------------------------------------------------
\* Bounds
\* ------------------------------------------------------------------------
MaxList == 1        \* feature records in a stubbed provider response
MaxTicks == 3       \* backticks in front of the text of a featureSummary
MaxFrags == 4       \* fragments a raw guide text is assembled from
MaxGuideFrags == 1  \* fragments of the guide text in a generateGuide run
MaxPasses == 2      \* successive applications of the clean-up pipeline
MaxRequests == 2    \* requests the web server receives
MaxFeed == 2        \* items in the RSS feed

\* ------------------------------------------------------------------------
\* Text helpers (String.prototype.trim, global regex replace)
\* ------------------------------------------------------------------------
Providers == {"gemini", "openai"}

WS == {" ", "\n"}

RECURSIVE SkipWS(_, _)
\* index of the first token at or after i that is not white space
SkipWS(txt, i) ==
    IF i <= Len(txt) /\ txt[i] \in WS THEN SkipWS(txt, i + 1) ELSE i

RECURSIVE SkipWSBack(_, _)
\* index of the last token at or before i that is not white space
SkipWSBack(txt, i) ==
    IF i >= 1 /\ txt[i] \in WS THEN SkipWSBack(txt, i - 1) ELSE i

\* String.prototype.trim
Trim(txt) ==
    LET a == SkipWS(txt, 1)
        b == SkipWSBack(txt, Len(txt))
    IN  IF a > b THEN <<>> ELSE SubSeq(txt, a, b)

\* txt has the tokens of pat at position i
At(txt, i, pat) ==
    /\ i + Len(pat) - 1 <= Len(txt)
    /\ \A d \in 1..Len(pat) : txt[i + d - 1] = pat[d]

\* the backtick character
Tick == "tick"

Fence == <<Tick, Tick, Tick>>

\* ------------------------------------------------------------------------
\* JavaScript values (the results of JSON.parse) and JSON texts
\* ------------------------------------------------------------------------
\* t: "undefined" | "null" | "str" | "arr" | "obj"; s: the tokens of a string;
\* e: the elements of an array or the member values of an object;
\* k: the member keys of an object, in order
Undefined == [t |-> "undefined", s |-> <<>>, e |-> <<>>, k |-> <<>>]
Null == [t |-> "null", s |-> <<>>, e |-> <<>>, k |-> <<>>]
Str(s) == [t |-> "str", s |-> s, e |-> <<>>, k |-> <<>>]
Arr(e) == [t |-> "arr", s |-> <<>>, e |-> e, k |-> <<>>]
Obj(k, e) == [t |-> "obj", s |-> <<>>, e |-> e, k |-> k]

EmptyArray == Arr(<<>>)

Quote == "\""

\* the result of a parsing step: the value and the index after it
ParseOk(v, n) == [ok |-> TRUE, v |-> v, n |-> n]
ParseFail == [ok |-> FALSE, v |-> Undefined, n |-> 0]

RECURSIVE FindToken(_, _, _)
\* index of the first occurrence of tok at or after i, Len(txt) + 1 if none
FindToken(txt, i, tok) ==
    IF i > Len(txt) \/ txt[i] = tok THEN i ELSE FindToken(txt, i + 1, tok)

\* a JSON string literal starting at the quote at i; a raw line feed inside
\* the literal is a syntax error
ParseString(txt, i) ==
    LET c == FindToken(txt, i + 1, Quote)
    IN  IF c > Len(txt) THEN ParseFail
        ELSE IF \E j \in (i + 1)..(c - 1) : txt[j] = "\n" THEN ParseFail
        ELSE ParseOk(Str(SubSeq(txt, i + 1, c - 1)), c + 1)

RECURSIVE ParseValue(_, _)
RECURSIVE ParseElems(_, _, _)
RECURSIVE ParseMembers(_, _, _, _)

ParseValue(txt, i0) ==
    LET i == SkipWS(txt, i0)
    IN  IF i > Len(txt) THEN ParseFail
        ELSE IF txt[i] = "null" THEN ParseOk(Null, i + 1)
        ELSE IF txt[i] = Quote THEN ParseString(txt, i)
        ELSE IF txt[i] = "[" THEN
            LET j == SkipWS(txt, i + 1)
            IN  IF j <= Len(txt) /\ txt[j] = "]" THEN ParseOk(EmptyArray, j + 1)
                ELSE ParseElems(txt, i + 1, <<>>)
        ELSE IF txt[i] = "{" THEN
            LET j == SkipWS(txt, i + 1)
            IN  IF j <= Len(txt) /\ txt[j] = "}" THEN ParseOk(Obj(<<>>, <<>>), j + 1)
                ELSE ParseMembers(txt, i + 1, <<>>, <<>>)
        ELSE ParseFail

ParseElems(txt, i, acc) ==
    LET r == ParseValue(txt, i)
        j == SkipWS(txt, r.n)
    IN  IF ~r.ok \/ j > Len(txt) THEN ParseFail
        ELSE IF txt[j] = "," THEN ParseElems(txt, j + 1, Append(acc, r.v))
        ELSE IF txt[j] = "]" THEN ParseOk(Arr(Append(acc, r.v)), j + 1)
        ELSE ParseFail

ParseMembers(txt, i, ks, es) ==
    LET a == SkipWS(txt, i)
        key == IF a <= Len(txt) /\ txt[a] = Quote THEN ParseString(txt, a) ELSE ParseFail
        c == SkipWS(txt, key.n)
        r == IF key.ok /\ c <= Len(txt) /\ txt[c] = ":" THEN ParseValue(txt, c + 1) ELSE ParseFail
        j == SkipWS(txt, r.n)
    IN  IF ~r.ok \/ j > Len(txt) THEN ParseFail
        ELSE IF txt[j] = "," THEN ParseMembers(txt, j + 1, Append(ks, key.v.s), Append(es, r.v))
        ELSE IF txt[j] = "}" THEN ParseOk(Obj(Append(ks, key.v.s), Append(es, r.v)), j + 1)
        ELSE ParseFail

\* JSON.parse: ok is FALSE where JSON.parse throws a SyntaxError
JSONParse(txt) ==
    LET r == ParseValue(txt, 1)
    IN  IF r.ok /\ SkipWS(txt, r.n) > Len(txt) THEN r ELSE ParseFail

RECURSIVE Stringify(_)
RECURSIVE StringifyItems(_, _, _)
\* the members (keys ks) or elements (ks = <<>>) es, from index i on
StringifyItems(ks, es, i) ==
    IF i > Len(es) THEN <<>>
    ELSE (IF i > 1 THEN <<",">> ELSE <<>>)
         \o (IF ks # <<>> THEN <<Quote>> \o ks[i] \o <<Quote, ":">> ELSE <<>>)
         \o Stringify(es[i]) \o StringifyItems(ks, es, i + 1)

\* JSON.stringify, as a stubbed backend uses it to produce its payload
Stringify(v) ==
    IF v.t = "null" THEN <<"null">>
    ELSE IF v.t = "str" THEN <<Quote>> \o v.s \o <<Quote>>
    ELSE IF v.t = "arr" THEN <<"[">> \o StringifyItems(<<>>, v.e, 1) \o <<"]">>
    ELSE <<"{">> \o StringifyItems(v.k, v.e, 1) \o <<"}">>


\* ------------------------------------------------------------------------
\* Regular expressions of aiService.js: MatchLen(pat, txt, i) is the length
\* of the match of pat that starts at token i of txt, 0 if there is none
\* ------------------------------------------------------------------------
\* /```json\n?/
MatchFenceJson(txt, i) ==
    IF At(txt, i, Fence \o <<"json">>)
    THEN (IF At(txt, i + 4, <<"\n">>) THEN 5 ELSE 4)
    ELSE 0

\* /```\n?/
MatchFenceNl(txt, i) ==
    IF At(txt, i, Fence)
    THEN (IF At(txt, i + 3, <<"\n">>) THEN 4 ELSE 3)
    ELSE 0

\* /```(html)?/
MatchFenceHtml(txt, i) ==
    IF At(txt, i, Fence)
    THEN (IF At(txt, i + 3, <<"html">>) THEN 4 ELSE 3)
    ELSE 0

\* <h[1-6] and </h[1-6]>
HeadOpen == {"<h2", "<h3"}
HeadClose == {"</h2>", "</h3>"}

\* the tokens that contain the character ">"; each ends with it and has no
\* other, so each ends a run of [^>]*
GtTokens == {">", "</h2>", "</h3>", "</div>", "</section>"}

\* the heading words, matched case-insensitively (flag i)
InfographicWords == {"Infographic", "INFOGRAPHIC"}
BvvWords == {"Business Value Visualization", "business value visualization"}

RECURSIVE FindIn(_, _, _)
\* index of the first token at or after i that is in set S, Len(txt) + 1 if none
FindIn(txt, i, S) ==
    IF i > Len(txt) \/ txt[i] \in S THEN i ELSE FindIn(txt, i + 1, S)

\* /<h[1-6][^>]*>.*?WORD.*?<\/h[1-6]>[\s\S]*?(?=<h[1-6]|$)/ for the words W:
\* the opening tag, then on the same line the first word of W and the first
\* closing heading tag behind it, then everything up to the next opening
\* heading tag or the end of the text
MatchHeadingSection(txt, i, W) ==
    IF ~(i <= Len(txt) /\ txt[i] \in HeadOpen) THEN 0
    ELSE LET c == FindIn(txt, i + 1, GtTokens)
             lineEnd == FindToken(txt, c + 1, "\n")
             j == FindIn(txt, c + 1, W)
             k == FindIn(txt, j + 1, HeadClose)
             e == FindIn(txt, k + 1, HeadOpen)
         IN  IF c <= Len(txt) /\ j < lineEnd /\ k < lineEnd THEN e - i ELSE 0

\* /<TAG[^>]*>/
MatchTag(txt, i, tag) ==
    IF ~(i <= Len(txt) /\ txt[i] = tag) THEN 0
    ELSE LET c == FindIn(txt, i + 1, GtTokens)
         IN  IF c <= Len(txt) THEN c - i + 1 ELSE 0

\* /<br\s*\/?>\s*/ : the index behind the group that starts at i, 0 if none
BrGroupEnd(txt, i) ==
    IF ~(i <= Len(txt) /\ txt[i] = "<br") THEN 0
    ELSE LET a == SkipWS(txt, i + 1)
             b == IF a <= Len(txt) /\ txt[a] = "/" THEN a + 1 ELSE a
         IN  IF b <= Len(txt) /\ txt[b] = ">" THEN SkipWS(txt, b + 1) ELSE 0

RECURSIVE BrRun(_, _, _)
\* the greedy run of groups from i on: how many, and the index behind them
BrRun(txt, i, n) ==
    LET e == BrGroupEnd(txt, i)
    IN  IF e = 0 THEN [n |-> n, end |-> i] ELSE BrRun(txt, e, n + 1)

\* /(<br\s*\/?>\s*){3,}/
MatchBreaks(txt, i) ==
    LET r == BrRun(txt, i, 0)
    IN  IF r.n >= 3 THEN r.end - i ELSE 0

\* /<TAG[^>]*>\s*<\/TAG>/
MatchEmptyContainer(txt, i, open, close) ==
    LET n == MatchTag(txt, i, open)
        q == SkipWS(txt, i + n)
    IN  IF n > 0 /\ q <= Len(txt) /\ txt[q] = close THEN q - i + 1 ELSE 0

MatchLen(pat, txt, i) ==
    CASE pat = "fenceJson" -> MatchFenceJson(txt, i)
      [] pat = "fenceNl" -> MatchFenceNl(txt, i)
      [] pat = "fenceHtml" -> MatchFenceHtml(txt, i)
      [] pat = "infographic" -> MatchHeadingSection(txt, i, InfographicWords)
      [] pat = "bvv" -> MatchHeadingSection(txt, i, BvvWords)
      [] pat = "img" -> MatchTag(txt, i, "<img")
      [] pat = "breaks" -> MatchBreaks(txt, i)
      [] pat = "div" -> MatchEmptyContainer(txt, i, "<div", "</div>")
      [] pat = "section" -> MatchEmptyContainer(txt, i, "<section", "</section>")
      [] OTHER -> 0

RECURSIVE ReplaceFrom(_, _, _, _)
ReplaceFrom(pat, txt, repl, i) ==
    IF i > Len(txt) THEN <<>>
    ELSE LET n == MatchLen(pat, txt, i)
         IN  IF n > 0 THEN repl \o ReplaceFrom(pat, txt, repl, i + n)
             ELSE <<txt[i]>> \o ReplaceFrom(pat, txt, repl, i + 1)

\* String.prototype.replace with a global regular expression
Replace(txt, pat, repl) == ReplaceFrom(pat, txt, repl, 1)

\* ------------------------------------------------------------------------
\* extractFeatures
\* ------------------------------------------------------------------------
KeyName == <<"featureName">>
KeySummary == <<"featureSummary">>
KeyUseCases == <<"potentialUseCases">>
KeyWrapper == <<"extractedFeatures">>

\* obj[key] for a value that is not null or undefined
GetProp(v, key) ==
    IF v.t = "obj" /\ \E i \in 1..Len(v.k) : v.k[i] = key
    THEN v.e[CHOOSE i \in 1..Len(v.k) :
                /\ v.k[i] = key
                /\ \A j \in (i + 1)..Len(v.k) : v.k[j] # key]
    ELSE Undefined

\* ToBoolean, as the || operator applies it
Truthy(v) == v.t \notin {"undefined", "null"} /\ ~(v.t = "str" /\ v.s = <<>>)

\* a settled provider call: rejected, or resolved with a response whose text
\* (function-call arguments, candidate text) is a string or is missing
Rejected == [st |-> "rejected", hasText |-> FALSE, text |-> <<>>]
ResolvedText(txt) == [st |-> "resolved", hasText |-> TRUE, text |-> txt]
ResolvedNoText == [st |-> "resolved", hasText |-> FALSE, text |-> <<>>]
Pending == [st |-> "pending", hasText |-> FALSE, text |-> <<>>]
NoCall == [st |-> "none", hasText |-> FALSE, text |-> <<>>]

\* the completion of a block: a value, or a thrown exception
Return(v) == [thrown |-> FALSE, v |-> v]
Thrown == [thrown |-> TRUE, v |-> Undefined]

\* the text that the gemini branch hands to JSON.parse
CleanJsonText(version, txt) ==
    IF version = 1 THEN Trim(txt)
    ELSE Replace(Replace(Trim(txt), "fenceJson", <<>>), "fenceNl", <<>>)

\* the openai branch of the try block of extractFeatures
ExtractOpenai(call) ==
    IF call.st = "rejected" \/ ~call.hasText THEN Thrown
    ELSE LET parsedObject == JSONParse(call.text)
         IN  IF ~parsedObject.ok \/ parsedObject.v.t = "null" THEN Thrown
             ELSE LET f == GetProp(parsedObject.v, KeyWrapper)
                  IN  Return(IF Truthy(f) THEN f ELSE EmptyArray)

\* the gemini branch of the try block of extractFeatures
ExtractGemini(version, call) ==
    IF call.st = "rejected" \/ ~call.hasText THEN Thrown
    ELSE LET finalResult == JSONParse(CleanJsonText(version, call.text))
         IN  IF ~finalResult.ok THEN Thrown ELSE Return(finalResult.v)

ExtractTry(version, provider, call) ==
    IF provider = "openai" THEN ExtractOpenai(call) ELSE ExtractGemini(version, call)

\* how the promise of an async function settled
Fulfilled(v) == [st |-> "fulfilled", v |-> v]
RejectedPromise == [st |-> "rejected", v |-> Undefined]
PendingPromise == [st |-> "pending", v |-> Undefined]

\* a catch clause that lets the exception through
ExtractCatch_Rethrow(completion) ==
    IF completion.thrown THEN RejectedPromise ELSE Fulfilled(completion.v)

\* try { ... return finalResult } catch (error) { ...; return [] }
ExtractCatch(completion) ==
    IF completion.thrown THEN Fulfilled(EmptyArray) ELSE Fulfilled(completion.v)

extractFeatures(version, provider, call) ==
    ExtractCatch(ExtractTry(version, provider, call))


\* ------------------------------------------------------------------------
\* The clean-up of the guide text in generateGuide
\* ------------------------------------------------------------------------
\* let html = textResult.replace(/```(html)?/g, '').trim()
StripFences(txt) == Trim(Replace(txt, "fenceHtml", <<>>))

\* the two replace calls that remove infographic-related sections
RemoveInfographicSections(txt) ==
    Replace(Replace(txt, "infographic", <<>>), "bvv", <<>>)

\* html.replace(/<img[^>]*>/gi, '')
RemoveImages(txt) == Replace(txt, "img", <<>>)

\* the collapse of line breaks and the removal of empty div and section
CleanUpEmpty(txt) ==
    Replace(Replace(Replace(txt, "breaks", <<"<br", ">", "<br", ">">>),
                    "div", <<>>),
            "section", <<>>)

\* the whole sequence of steps from the raw guide text to the html field
sanitize(textResult) ==
    Trim(CleanUpEmpty(RemoveImages(RemoveInfographicSections(StripFences(textResult)))))

\* ------------------------------------------------------------------------
\* generateInfographicHTML and generateGuide
\* ------------------------------------------------------------------------
\* the html of the result that the catch clause of generateGuide returns
ErrorHtml ==
    <<"<h3>", "Error Generating Guide", "</h3>", "<p>",
      "Could not generate the technical guide using the selected AI provider.",
      "</p>">>

\* the object { infographicHtml: ..., html: ... }
GuideResult(infographicHtml, html) ==
    Obj(<< <<"infographicHtml">>, <<"html">> >>, <<infographicHtml, html>>)

ErrorResult == GuideResult(Null, Str(ErrorHtml))

\* the try block of generateInfographicHTML, after its await
InfographicTry(call) ==
    IF call.st = "rejected" \/ ~call.hasText THEN Thrown
    ELSE Return(Str(StripFences(call.text)))

\* a catch clause that lets the exception through
InfographicCatch_Rethrow(completion) ==
    IF completion.thrown THEN RejectedPromise ELSE Fulfilled(completion.v)

\* catch (error) { ...; return null }
InfographicCatch(completion) ==
    IF completion.thrown THEN Fulfilled(Null) ELSE Fulfilled(completion.v)

generateInfographicHTML(call) == InfographicCatch(InfographicTry(call))

\* textPromise: the promise of the guide-text call of the selected provider
TextPromise(call) ==
    IF call.st = "pending" THEN PendingPromise
    ELSE IF call.st = "rejected" THEN RejectedPromise
    ELSE Fulfilled(IF call.hasText THEN Str(call.text) ELSE Undefined)

\* a join that settles with the guide text alone
PromiseAll_TextOnly(infographic, text) ==
    IF text.st = "rejected" THEN RejectedPromise
    ELSE IF text.st = "fulfilled" THEN Fulfilled(Arr(<<infographic.v, text.v>>))
    ELSE PendingPromise

\* Promise.all([infographicPromise, textPromise]): rejected as soon as one
\* of the two is rejected, fulfilled once both are fulfilled
PromiseAll(infographic, text) ==
    IF infographic.st = "rejected" \/ text.st = "rejected" THEN RejectedPromise
    ELSE IF infographic.st = "fulfilled" /\ text.st = "fulfilled"
         THEN Fulfilled(Arr(<<infographic.v, text.v>>))
    ELSE PendingPromise

\* the try block of generateGuide from the await of Promise.all on
GuideTry(all) ==
    IF all.st = "rejected" THEN Thrown
    ELSE LET infographicResult == all.v.e[1]
             textResult == all.v.e[2]
         IN  IF textResult.t # "str" THEN Thrown
             ELSE Return(GuideResult(infographicResult, Str(sanitize(textResult.s))))

\* a catch clause that lets the exception through
GuideCatch_Rethrow(completion) ==
    IF completion.thrown THEN RejectedPromise ELSE Fulfilled(completion.v)

\* catch (error) { ...; return { infographicHtml: null, html: "<h3>Error ..." } }
GuideCatch(completion) ==
    IF completion.thrown THEN Fulfilled(ErrorResult) ELSE Fulfilled(completion.v)

generateGuide(all) == GuideCatch(GuideTry(all))

\* ------------------------------------------------------------------------
\* Stubbed backend of extractFeatures: the responses it can deliver
\* ------------------------------------------------------------------------
Ticks(n) == [i \in 1..n |-> Tick]

GoodSummaries == {Str(Ticks(n) \o <<"a">>) : n \in 0..MaxTicks}
GoodUseCases == {EmptyArray, Arr(<<Str(<<"a">>)>>)}

\* a feature record; a field whose value is Undefined is left out
FeatureRecord(name, summary, useCases) ==
    LET all == << <<KeyName, name>>, <<KeySummary, summary>>, <<KeyUseCases, useCases>> >>
        present == SelectSeq(all, LAMBDA m : m[2].t # "undefined")
    IN  Obj([i \in 1..Len(present) |-> present[i][1]],
            [i \in 1..Len(present) |-> present[i][2]])

\* records with the three required fields
GoodRecords ==
    {FeatureRecord(Str(<<"a">>), s, u) : s \in GoodSummaries, u \in GoodUseCases}

\* records that lack a required field or have an empty name or summary
BadRecords ==
    {FeatureRecord(n, Str(<<"a">>), EmptyArray) : n \in {Undefined, Str(<<>>)}}
    \cup {FeatureRecord(Str(<<"a">>), s, EmptyArray) : s \in {Undefined, Str(<<>>)}}
    \cup {FeatureRecord(Str(<<"a">>), Str(<<"a">>), Undefined)}

FeatureRecords == GoodRecords \cup BadRecords

\* featureObjectSchema: the three required fields, name and summary not empty
WellFormed(r) ==
    /\ r.t = "obj"
    /\ GetProp(r, KeyName).t = "str" /\ GetProp(r, KeyName).s # <<>>
    /\ GetProp(r, KeySummary).t = "str" /\ GetProp(r, KeySummary).s # <<>>
    /\ GetProp(r, KeyUseCases).t = "arr"

\* the lists of at most max feature records
RecordLists(max) == UNION {[1..n -> FeatureRecords] : n \in 0..max}

ListShapes == {"array", "wrapper", "fencedJson", "fenced", "paddedFence", "truncated"}
RecordShapes == {"record"}
FixedShapes == {"null", "string", "emptyObject", "wrapperNull", "wrapperString", "prose"}

\* the responses built from lists of at most max feature records
Stubs(max) ==
    {[shape |-> sh, list |-> l] : sh \in ListShapes, l \in RecordLists(max)}
    \cup {[shape |-> sh, list |-> <<r>>] : sh \in RecordShapes, r \in FeatureRecords}
    \cup {[shape |-> sh, list |-> <<>>] : sh \in FixedShapes}

NoStub == [shape |-> "none", list |-> <<>>]

StubText(stub) ==
    LET array == Stringify(Arr(stub.list))
        sh == stub.shape
    IN  CASE sh = "array" -> array
          [] sh = "wrapper" -> Stringify(Obj(<<KeyWrapper>>, <<Arr(stub.list)>>))
          [] sh = "fencedJson" -> Fence \o <<"json", "\n">> \o array \o <<"\n">> \o Fence
          [] sh = "fenced" -> Fence \o <<"\n">> \o array \o <<"\n">> \o Fence
          [] sh = "paddedFence" ->
                <<" ", "\n">> \o Fence \o <<"json", "\n">> \o array \o <<"\n">> \o Fence \o <<"\n", " ">>
          [] sh = "truncated" -> SubSeq(array, 1, Len(array) - 1)
          [] sh = "record" -> Stringify(stub.list[1])
          [] sh = "null" -> <<"null">>
          [] sh = "string" -> Stringify(Str(<<"a">>))
          [] sh = "emptyObject" -> Stringify(Obj(<<>>, <<>>))
          [] sh = "wrapperNull" -> Stringify(Obj(<<KeyWrapper>>, <<Null>>))
          [] sh = "wrapperString" -> Stringify(Obj(<<KeyWrapper>>, <<Str(<<"a">>)>>))
          [] OTHER -> <<"a", " ", "a">>

\* ------------------------------------------------------------------------
\* index.js: requests of the web server
\* ------------------------------------------------------------------------
\* a number as parseInt returns it: NaN, or an integer
NaN == [nan |-> TRUE, n |-> 0]
Num(n) == [nan |-> FALSE, n |-> n]

\* a request: its route, where its handler stands, the provider it selected,
\* the feed items it still has to process, the status of the response it
\* sent (0: none yet), whether its handler threw outside of any try block, and the
\* arguments it invoked generateGuide with; hit, partial, feedFailed and
\* called record what the handler did: served the cache as a cache hit, did
\* so while another request was filling the cache, had its feed fetch fail,
\* called extractFeatures
NewRequest ==
    [route |-> "none", pc |-> "new", provider |-> "gemini", items |-> <<>>,
     status |-> 0, threw |-> FALSE,
     invoked |-> FALSE, feature |-> Undefined, useCase |-> Undefined,
     hit |-> FALSE, partial |-> FALSE, feedFailed |-> FALSE, called |-> FALSE]

\* ------------------------------------------------------------------------
\* Initial state
\* ------------------------------------------------------------------------
NoResult == PendingPromise

Init ==
    /\ efPc = "idle"
    /\ efVersion = 2
    /\ efProvider = "gemini"
    /\ efCall = NoCall
    /\ efStub = NoStub
    /\ efResult = NoResult
    /\ ggPc = "idle"
    /\ ggProvider = "gemini"
    /\ textCall = NoCall
    /\ infoCall = NoCall
    /\ infographicPromise = PendingPromise
    /\ ggResult = NoResult
    /\ requests = <<>>
    /\ sanRaw = <<>>
    /\ sanOut = <<>>
    /\ extractedArticlesCache = <<>>
    /\ http = [r \in 1..MaxRequests |-> NewRequest]

\* ------------------------------------------------------------------------
\* Actions of an extractFeatures invocation
\* ------------------------------------------------------------------------
\* extractFeatures is called: the prompt is built and the one provider
\* request is issued; the function suspends at its await
EfStart(version, provider) ==
    /\ efPc = "idle"
    /\ efPc' = "awaiting"
    /\ efVersion' = version
    /\ efProvider' = provider
    /\ efCall' = Pending
    /\ requests' = Append(requests, [fn |-> "extractFeatures", to |-> provider])
    /\ UNCHANGED <<efStub, efResult, ggVars, sanVars, webVars>>

\* the provider call rejects (network or HTTP error)
EfReject ==
    /\ efPc = "awaiting" /\ efCall.st = "pending"
    /\ efCall' = Rejected
    /\ UNCHANGED <<efPc, efVersion, efProvider, efStub, efResult, ggVars, requests, sanVars, webVars>>

\* the provider call resolves with a response that carries a text
EfResolve(stub) ==
    /\ efPc = "awaiting" /\ efCall.st = "pending"
    /\ efCall' = ResolvedText(StubText(stub))
    /\ efStub' = stub
    /\ UNCHANGED <<efPc, efVersion, efProvider, efResult, ggVars, requests, sanVars, webVars>>

\* the provider call resolves with a response without tool call or text
EfResolveNoText ==
    /\ efPc = "awaiting" /\ efCall.st = "pending"
    /\ efCall' = ResolvedNoText
    /\ UNCHANGED <<efPc, efVersion, efProvider, efStub, efResult, ggVars, requests, sanVars, webVars>>

\* extractFeatures resumes after its await and runs to its return
EfResume ==
    /\ efPc = "awaiting" /\ efCall.st \in {"rejected", "resolved"}
    /\ efResult' = extractFeatures(efVersion, efProvider, efCall)
    /\ efPc' = "done"
    /\ UNCHANGED <<efVersion, efProvider, efCall, efStub, ggVars, requests, sanVars, webVars>>

NextExtract ==
    \/ \E version \in {1, 2}, provider \in Providers : EfStart(version, provider)
    \/ EfReject
    \/ \E stub \in Stubs(MaxList) : EfResolve(stub)
    \/ EfResolveNoText
    \/ EfResume

SpecExtract == Init /\ [][NextExtract]_vars


\* ------------------------------------------------------------------------
\* Claims about extractFeatures (specification SpecExtract)
\* ------------------------------------------------------------------------
\* the text that the finished invocation handed to JSON.parse
EfParsedText ==
    IF efProvider = "openai" THEN efCall.text ELSE CleanJsonText(efVersion, efCall.text)

\* the provider call rejected, delivered no text, or JSON.parse threw
EfCallFailed ==
    \/ efCall.st = "rejected"
    \/ ~efCall.hasText
    \/ ~JSONParse(EfParsedText).ok

\* C1: for both providers, when the provider call rejects or throws, or its
\* payload is not parseable JSON, extractFeatures resolves to the empty
\* sequence, and it never rejects to its caller.
C1_FailureGivesEmpty ==
    efPc = "done" =>
        /\ efResult.st = "fulfilled"
        /\ EfCallFailed => efResult = Fulfilled(EmptyArray)

C1_Witness ==
    /\ efPc = "done" /\ efProvider = "openai"
    /\ efCall.st = "resolved" /\ efCall.hasText
    /\ ~JSONParse(EfParsedText).ok
    /\ efResult = Fulfilled(EmptyArray)

\* C5: every element of the sequence returned by extractFeatures has a
\* non-empty name, a non-empty summary and a defined useCases sequence; a
\* response with a record that lacks one of them yields the empty sequence.
C5_ElementsWellFormed ==
    (efPc = "done" /\ efResult.v.t = "arr") =>
        \A i \in 1..Len(efResult.v.e) : WellFormed(efResult.v.e[i])

\* the parsed provider output does not have the expected shape
EfShapeMismatch ==
    /\ efCall.st = "resolved" /\ efCall.hasText
    /\ LET parsed == JSONParse(EfParsedText)
       IN  /\ parsed.ok
           /\ \/ efProvider = "gemini" /\ parsed.v.t # "arr"
              \/ efProvider = "openai"
                   /\ (parsed.v.t # "obj" \/ GetProp(parsed.v, KeyWrapper).t = "undefined")

\* C6: when the parsed provider output does not have the expected shape (for
\* gemini the top-level value is not an array, for openai the wrapper key is
\* missing or the arguments are not the wrapper object), extractFeatures
\* resolves to the empty sequence.
C6_ShapeMismatchGivesEmpty ==
    (efPc = "done" /\ EfShapeMismatch) => efResult = Fulfilled(EmptyArray)

\* the stub delivered a list of well-formed records in the wrapping of the
\* provider that was called
EfWellFormedStub ==
    /\ efCall.st = "resolved" /\ efCall.hasText
    /\ \A i \in 1..Len(efStub.list) : WellFormed(efStub.list[i])
    /\ \/ efProvider = "openai" /\ efStub.shape = "wrapper"
       \/ efProvider = "gemini"
            /\ efStub.shape \in {"array", "fencedJson", "fenced", "paddedFence"}

\* C7: for every list L of well-formed feature records, extractFeatures with
\* openai over the JSON of {extractedFeatures: L} and with gemini over the
\* JSON of L (optionally fenced and padded) both return a sequence equal to L.
C7_ProviderAgnostic ==
    (efPc = "done" /\ efVersion = 2 /\ EfWellFormedStub) =>
        efResult = Fulfilled(Arr(efStub.list))


\* ------------------------------------------------------------------------
\* The clean-up pipeline as a function of the raw text (SpecSanitize)
\* ------------------------------------------------------------------------
\* the pieces a raw guide text is assembled from
Fragments ==
    { <<"<h2", ">", "x", "</h2>">>,
      <<"<h2", ">", "Infographic", "</h2>">>,
      <<"<h3", ">", "business value visualization", "</h3>">>,
      <<"x">>, <<" ">>, <<"\n">>, <<Tick>>, <<"html">>,
      <<"<img", ">">>, <<"<br", "/", ">">>,
      <<"<div", ">">>, <<"</div>">>, <<"<section", ">">>, <<"</section>">> }

RECURSIVE Texts(_)
\* the texts assembled from at most n fragments
Texts(n) ==
    IF n = 0 THEN {<<>>}
    ELSE LET shorter == Texts(n - 1)
         IN  shorter \cup {t \o f : t \in shorter, f \in Fragments}

InitSanitize ==
    /\ efPc = "idle"
    /\ efVersion = 2
    /\ efProvider = "gemini"
    /\ efCall = NoCall
    /\ efStub = NoStub
    /\ efResult = NoResult
    /\ ggPc = "idle"
    /\ ggProvider = "gemini"
    /\ textCall = NoCall
    /\ infoCall = NoCall
    /\ infographicPromise = PendingPromise
    /\ ggResult = NoResult
    /\ requests = <<>>
    /\ sanRaw \in Texts(MaxFrags)
    /\ sanOut = <<>>
    /\ extractedArticlesCache = <<>>
    /\ http = [r \in 1..MaxRequests |-> NewRequest]

\* the pipeline is applied to the raw text, then to its own output
SanApply ==
    /\ Len(sanOut) < MaxPasses
    /\ sanOut' = Append(sanOut, sanitize(IF sanOut = <<>> THEN sanRaw ELSE sanOut[Len(sanOut)]))
    /\ UNCHANGED <<sanRaw, efVars, ggVars, requests, webVars>>

NextSanitize == SanApply

SpecSanitize == InitSanitize /\ [][NextSanitize]_vars

\* ------------------------------------------------------------------------
\* Actions of a generateGuide invocation (specification SpecGuide)
\* ------------------------------------------------------------------------
\* the infographic texts a backend can deliver
InfoTexts ==
    { <<"<div", ">", "x", "</div>">>,
      Fence \o <<"html", "\n", "<div", ">", "x", "</div>", "\n">> \o Fence }

Settled == {"rejected", "resolved"}

\* generateGuide is called: generateInfographicHTML issues its request to
\* gemini and suspends, the guide-text request is issued to the selected
\* provider, and generateGuide suspends at the await of Promise.all
\* the infographic request sent to the provider named by the selector too
GuideRequests_SelectedProvider(provider) ==
    << [fn |-> "generateInfographicHTML", to |-> provider],
       [fn |-> "generateGuide", to |-> provider] >>

\* the provider requests generateGuide issues before its await: the
\* infographic request of generateInfographicHTML, always through
\* callGeminiV1API, then the guide-text request to the selected provider
GuideRequests(provider) ==
    << [fn |-> "generateInfographicHTML", to |-> "gemini"],
       [fn |-> "generateGuide", to |-> provider] >>

GgStart(provider) ==
    /\ ggPc = "idle"
    /\ ggPc' = "awaiting"
    /\ ggProvider' = provider
    /\ infoCall' = Pending
    /\ textCall' = Pending
    /\ requests' = requests \o GuideRequests(provider)
    /\ UNCHANGED <<infographicPromise, ggResult, efVars, sanVars, webVars>>

InfoReject ==
    /\ infoCall.st = "pending"
    /\ infoCall' = Rejected
    /\ UNCHANGED <<ggPc, ggProvider, textCall, infographicPromise, ggResult,
                   efVars, requests, sanVars, webVars>>

InfoResolve(txt) ==
    /\ infoCall.st = "pending"
    /\ infoCall' = ResolvedText(txt)
    /\ UNCHANGED <<ggPc, ggProvider, textCall, infographicPromise, ggResult,
                   efVars, requests, sanVars, webVars>>

InfoResolveNoText ==
    /\ infoCall.st = "pending"
    /\ infoCall' = ResolvedNoText
    /\ UNCHANGED <<ggPc, ggProvider, textCall, infographicPromise, ggResult,
                   efVars, requests, sanVars, webVars>>

\* generateInfographicHTML resumes after its await and runs to its return
InfoResume ==
    /\ infoCall.st \in Settled /\ infographicPromise.st = "pending"
    /\ infographicPromise' = generateInfographicHTML(infoCall)
    /\ UNCHANGED <<ggPc, ggProvider, textCall, infoCall, ggResult,
                   efVars, requests, sanVars, webVars>>

TextReject ==
    /\ textCall.st = "pending"
    /\ textCall' = Rejected
    /\ UNCHANGED <<ggPc, ggProvider, infoCall, infographicPromise, ggResult,
                   efVars, requests, sanVars, webVars>>

TextResolve(txt) ==
    /\ textCall.st = "pending"
    /\ textCall' = ResolvedText(txt)
    /\ UNCHANGED <<ggPc, ggProvider, infoCall, infographicPromise, ggResult,
                   efVars, requests, sanVars, webVars>>

TextResolveNoText ==
    /\ textCall.st = "pending"
    /\ textCall' = ResolvedNoText
    /\ UNCHANGED <<ggPc, ggProvider, infoCall, infographicPromise, ggResult,
                   efVars, requests, sanVars, webVars>>

\* Promise.all has settled: generateGuide resumes and runs to its return
GgResume ==
    /\ ggPc = "awaiting"
    /\ PromiseAll(infographicPromise, TextPromise(textCall)).st # "pending"
    /\ ggResult' = generateGuide(PromiseAll(infographicPromise, TextPromise(textCall)))
    /\ ggPc' = "done"
    /\ UNCHANGED <<ggProvider, textCall, infoCall, infographicPromise,
                   efVars, requests, sanVars, webVars>>

NextGuide ==
    \/ \E provider \in Providers : GgStart(provider)
    \/ InfoReject
    \/ \E txt \in InfoTexts : InfoResolve(txt)
    \/ InfoResolveNoText
    \/ InfoResume
    \/ TextReject
    \/ \E txt \in Texts(MaxGuideFrags) : TextResolve(txt)
    \/ TextResolveNoText
    \/ GgResume

SpecGuide == Init /\ [][NextGuide]_vars

\* ------------------------------------------------------------------------
\* Claims about generateGuide (specification SpecGuide)
\* ------------------------------------------------------------------------
\* the guide-text call failed: it rejected or delivered no text
GgTextFailed == textCall.st = "rejected" \/ (textCall.st = "resolved" /\ ~textCall.hasText)

\* the infographic call failed: it rejected or delivered no text
GgInfoFailed == infoCall.st = "rejected" \/ (infoCall.st = "resolved" /\ ~infoCall.hasText)

\* C2: whenever the guide-text call fails, generateGuide resolves (never
\* rejects) to the result whose html is the fixed error fragment and whose
\* infographicHtml is null, whatever the outcome of the infographic branch.
C2_TextFailureGivesErrorResult ==
    (ggPc = "done" /\ GgTextFailed) => ggResult = Fulfilled(ErrorResult)

C2_Witness ==
    /\ ggPc = "done" /\ textCall.st = "rejected"
    /\ infographicPromise.st = "fulfilled" /\ infographicPromise.v.t = "str"
    /\ ggResult = Fulfilled(ErrorResult)

\* C3: whenever the infographic call fails and the guide-text call succeeds,
\* the result has infographicHtml null and html equal to the sanitized guide
\* text, which is not the error fragment.
C3_InfographicFailureTolerated ==
    (ggPc = "done" /\ GgInfoFailed /\ textCall.st = "resolved" /\ textCall.hasText) =>
        /\ ggResult = Fulfilled(GuideResult(Null, Str(sanitize(textCall.text))))
        /\ ggResult # Fulfilled(ErrorResult)

C3_Witness ==
    /\ ggPc = "done" /\ infoCall.st = "rejected"
    /\ textCall.st = "resolved" /\ textCall.hasText /\ textCall.text # <<>>
    /\ GetProp(ggResult.v, <<"infographicHtml">>) = Null
    /\ GetProp(ggResult.v, <<"html">>) = Str(sanitize(textCall.text))

C8_Idempotent ==
    Len(sanOut) >= 2 => sanOut[2] = sanOut[1]

HasFence(txt) == \E i \in 1..Len(txt) : At(txt, i, Fence)

\* C9: the html produced from any raw guide text contains no code-fence
\* token (three consecutive backticks).
C9_NoFenceInOutput ==
    Len(sanOut) >= 1 => ~HasFence(sanOut[1])

\* the section that starts with the opening heading tag at i and ends before
\* index q has a heading text that mentions one of the words W
MentionsIn(txt, i, q, W) ==
    LET c == FindIn(txt, i + 1, GtTokens)
        k == FindIn(txt, c + 1, HeadClose)
    IN  /\ c < q /\ k < q
        /\ \E j \in (c + 1)..(k - 1) : txt[j] \in W

RECURSIVE KeepOtherSections(_, _)
\* the text from index i on without the sections whose heading text
\* mentions Infographic or Business Value Visualization
KeepOtherSections(txt, i) ==
    IF i > Len(txt) THEN <<>>
    ELSE IF txt[i] \in HeadOpen THEN
        LET q == FindIn(txt, i + 1, HeadOpen)
        IN  (IF MentionsIn(txt, i, q, InfographicWords \cup BvvWords)
             THEN <<>> ELSE SubSeq(txt, i, q - 1))
            \o KeepOtherSections(txt, q)
    ELSE <<txt[i]>> \o KeepOtherSections(txt, i + 1)

\* C10: sanitization removes exactly the heading-delimited sections whose
\* heading text mentions Infographic or Business Value Visualization (the
\* heading and the content up to the next heading or the end of the text);
\* every other section survives, wherever it stands.
C10_RemovesExactlyInfographicSections ==
    Len(sanOut) >= 1 =>
        sanOut[1] = Trim(CleanUpEmpty(RemoveImages(KeepOtherSections(StripFences(sanRaw), 1))))


\* ------------------------------------------------------------------------
\* index.js: the routes (specification Spec)
\* ------------------------------------------------------------------------
\* feed.items.slice(0, 10)
SliceLen == 10

\* the values of the query parameter provider, and String.prototype.toLowerCase
QueryProviders == {"", "OpenAI", "gemini"}
ToLowerCase(q) == IF q = "OpenAI" THEN "openai" ELSE q

getProvider(query) ==
    IF query # "" /\ ToLowerCase(query) = "openai" THEN "openai" ELSE "gemini"

\* the values of a URL parameter of the guide route, and parseInt(p, 10)
Params == {"0", "1", "-1", "x"}
parseInt(p) ==
    CASE p = "0" -> Num(0)
      [] p = "1" -> Num(1)
      [] p = "-1" -> Num(0 - 1)
      [] OTHER -> NaN

\* v.length for a value that is not null or undefined: the length of an
\* array or string, undefined (here NaN) for any other value
Length(v) ==
    IF v.t = "arr" THEN Num(Len(v.e))
    ELSE IF v.t = "str" THEN Num(Len(v.s))
    ELSE NaN

\* a > b and a <= b on numbers: false when either is NaN
Greater(a, b) == ~a.nan /\ ~b.nan /\ a.n > b.n
LessEq(a, b) == ~a.nan /\ ~b.nan /\ a.n <= b.n

\* v[index] for an array or a string: undefined out of range
ElementAt(v, index) ==
    IF index.nan \/ index.n < 0 THEN Undefined
    ELSE IF v.t = "arr" /\ index.n < Len(v.e) THEN v.e[index.n + 1]
    ELSE IF v.t = "str" /\ index.n < Len(v.s) THEN Str(<<v.s[index.n + 1]>>)
    ELSE Undefined

\* the feed of n items, its items named 1..n, and Array.prototype.slice(0, k)
Feed(n) == [i \in 1..n |-> i]
Slice(items, k) == SubSeq(items, 1, IF Len(items) < k THEN Len(items) ELSE k)

\* what extractFeatures can return to the homepage route: its results for a
\* rejected call, for a one-record response in the wrapping of the provider
\* and for the response null
RouteRecord == FeatureRecord(Str(<<"a">>), Str(<<"a">>), Arr(<<Str(<<"a">>)>>))
RouteCalls(provider) ==
    { Rejected,
      ResolvedText(StubText([shape |-> IF provider = "openai" THEN "wrapper" ELSE "array",
                             list |-> <<RouteRecord>>])),
      ResolvedText(StubText([shape |-> "null", list |-> <<>>])) }
GeminiOutcomes == {extractFeatures(2, "gemini", c).v : c \in RouteCalls("gemini")}
OpenaiOutcomes == {extractFeatures(2, "openai", c).v : c \in RouteCalls("openai")}
ExtractOutcomes(provider) ==
    IF provider = "openai" THEN OpenaiOutcomes ELSE GeminiOutcomes

\* request q is between clearing the cache and the end of its loop
Refreshing(q) == http[q].route = "home" /\ http[q].pc = "extracting"

\* requests arrive in the order of their numbers
MayArrive(r) == http[r].pc = "new" /\ (IF r = 1 THEN TRUE ELSE http[r - 1].pc # "new")

\* the cache cleared before the feed fetch is awaited
CacheAfterFetch_ClearFirst(ok, cache) == <<>>

\* the cache once the feed fetch of a request has settled: the assignment of
\* [] stands behind the await of parseURL, so it runs only when the fetch
\* succeeded
CacheAfterFetch(ok, cache) == IF ok THEN <<>> ELSE cache

\* GET /: a cache miss or refresh=true starts the feed fetch and suspends;
\* otherwise the page is rendered from the cache
HomeArrive(r, query, refresh) ==
    /\ MayArrive(r)
    /\ LET provider == getProvider(query)
       IN  IF Len(extractedArticlesCache) = 0 \/ refresh
           THEN http' = [http EXCEPT ![r] =
                    [@ EXCEPT !.route = "home", !.pc = "fetching", !.provider = provider]]
           ELSE http' = [http EXCEPT ![r] =
                    [@ EXCEPT !.route = "home", !.pc = "done", !.provider = provider,
                              !.status = 200, !.hit = TRUE,
                              !.partial = \E q \in 1..MaxRequests : q # r /\ Refreshing(q)]]
    /\ UNCHANGED <<extractedArticlesCache, efVars, ggVars, requests, sanVars>>

\* rssParser.parseURL rejects: the catch clause answers 500
HomeFeedFail(r) ==
    /\ http[r].route = "home" /\ http[r].pc = "fetching"
    /\ extractedArticlesCache' = CacheAfterFetch(FALSE, extractedArticlesCache)
    /\ http' = [http EXCEPT ![r] =
                    [@ EXCEPT !.pc = "done", !.status = 500, !.feedFailed = TRUE]]
    /\ UNCHANGED <<efVars, ggVars, requests, sanVars>>

\* rssParser.parseURL resolves with a feed of n items: the cache is cleared
\* and extractFeatures is called for the first item, or the empty page is
\* rendered when the feed has no item
HomeFeedOk(r, n) ==
    /\ http[r].route = "home" /\ http[r].pc = "fetching"
    /\ extractedArticlesCache' = CacheAfterFetch(TRUE, extractedArticlesCache)
    /\ LET items == Slice(Feed(n), SliceLen)
       IN  IF items = <<>>
           THEN http' = [http EXCEPT ![r] =
                    [@ EXCEPT !.pc = "done", !.status = 200]]
           ELSE http' = [http EXCEPT ![r] =
                    [@ EXCEPT !.pc = "extracting", !.items = items, !.called = TRUE]]
    /\ UNCHANGED <<efVars, ggVars, requests, sanVars>>

\* extractFeatures returns for the first remaining item: reading .length of
\* null throws into the catch clause (500); a result with length > 0 is
\* pushed (by records the request that pushed it); then extractFeatures is
\* called for the next item, or the page is rendered when none remains
HomeExtractReturn(r, extractedFeatures) ==
    /\ http[r].route = "home" /\ http[r].pc = "extracting"
    /\ extractedFeatures \in ExtractOutcomes(http[r].provider)
    /\ IF extractedFeatures.t \in {"null", "undefined"}
       THEN /\ http' = [http EXCEPT ![r] =
                        [@ EXCEPT !.pc = "done", !.status = 500, !.items = <<>>]]
            /\ UNCHANGED extractedArticlesCache
       ELSE /\ extractedArticlesCache' =
                    IF Greater(Length(extractedFeatures), Num(0))
                    THEN Append(extractedArticlesCache,
                                [item |-> Head(http[r].items),
                                 features |-> extractedFeatures,
                                 extractionProvider |-> http[r].provider,
                                 by |-> r])
                    ELSE extractedArticlesCache
            /\ IF Tail(http[r].items) = <<>>
               THEN http' = [http EXCEPT ![r] =
                        [@ EXCEPT !.pc = "done", !.status = 200, !.items = <<>>]]
               ELSE http' = [http EXCEPT ![r] =
                        [@ EXCEPT !.items = Tail(@)]]
    /\ UNCHANGED <<efVars, ggVars, requests, sanVars>>

\* GET /guide/:articleIndex/:featureIndex/:useCaseIndex up to its await: the
\* checks of the cache and of the three indices, then the call of
\* generateGuide; reading potentialUseCases of undefined throws outside of
\* the try block
GuideArrive(r, a, f, u) ==
    /\ MayArrive(r)
    /\ LET articleIndex == parseInt(a)
           featureIndex == parseInt(f)
           useCaseIndex == parseInt(u)
           cache == extractedArticlesCache
           found == ~articleIndex.nan /\ articleIndex.n >= 0 /\ articleIndex.n < Len(cache)
           article == cache[articleIndex.n + 1]
           feature == ElementAt(article.features, featureIndex)
           potentialUseCases == GetProp(feature, KeyUseCases)
           useCase == ElementAt(potentialUseCases, useCaseIndex)
           req == [http[r] EXCEPT !.route = "guide", !.pc = "done"]
       IN  http' = [http EXCEPT ![r] =
                IF Len(cache) = 0 THEN [req EXCEPT !.status = 503]
                ELSE IF ~found THEN [req EXCEPT !.status = 404]
                ELSE IF ~Truthy(article.features)
                        \/ LessEq(Length(article.features), featureIndex)
                     THEN [req EXCEPT !.status = 404]
                ELSE IF feature.t \in {"null", "undefined"} THEN [req EXCEPT !.threw = TRUE]
                ELSE IF ~Truthy(potentialUseCases)
                        \/ LessEq(Length(potentialUseCases), useCaseIndex)
                     THEN [req EXCEPT !.status = 404]
                ELSE [req EXCEPT !.pc = "generating", !.provider = article.extractionProvider,
                                 !.invoked = TRUE, !.feature = feature, !.useCase = useCase]]
    /\ UNCHANGED <<extractedArticlesCache, efVars, ggVars, requests, sanVars>>

\* generateGuide has resolved: the guide page is rendered
GuideReturn(r) ==
    /\ http[r].route = "guide" /\ http[r].pc = "generating"
    /\ http' = [http EXCEPT ![r] = [@ EXCEPT !.pc = "done", !.status = 200]]
    /\ UNCHANGED <<extractedArticlesCache, efVars, ggVars, requests, sanVars>>

Next ==
    \/ \E r \in 1..MaxRequests, query \in QueryProviders, refresh \in BOOLEAN :
            HomeArrive(r, query, refresh)
    \/ \E r \in 1..MaxRequests : HomeFeedFail(r)
    \/ \E r \in 1..MaxRequests, n \in 0..MaxFeed : HomeFeedOk(r, n)
    \/ \E r \in 1..MaxRequests, extractedFeatures \in GeminiOutcomes \cup OpenaiOutcomes :
            HomeExtractReturn(r, extractedFeatures)
    \/ \E r \in 1..MaxRequests, a \in Params, f \in Params, u \in Params :
            GuideArrive(r, a, f, u)
    \/ \E r \in 1..MaxRequests : GuideReturn(r)

Spec == Init /\ [][Next]_vars

\* the homepage requests alone, overlapping each other (specification
\* SpecHome): the guide route never assigns to the cache
NextHome ==
    \/ \E r \in 1..MaxRequests, query \in QueryProviders, refresh \in BOOLEAN :
            HomeArrive(r, query, refresh)
    \/ \E r \in 1..MaxRequests : HomeFeedFail(r)
    \/ \E r \in 1..MaxRequests, n \in 0..MaxFeed : HomeFeedOk(r, n)
    \/ \E r \in 1..MaxRequests, extractedFeatures \in GeminiOutcomes \cup OpenaiOutcomes :
            HomeExtractReturn(r, extractedFeatures)

SpecHome == Init /\ [][NextHome]_vars


\* ------------------------------------------------------------------------
\* Claims about the routes (specification Spec)
\* ------------------------------------------------------------------------
\* the elements of an array value
Elements(v) == {v.e[i] : i \in 1..Len(v.e)}

\* C11: the guide route validates the indices before invoking the core: for
\* every value of the three URL parameters and every cache state,
\* generateGuide is invoked only with a feature record of the cache and a
\* use case that is an element of its potentialUseCases; in every other
\* case the route answers 503 or 404, without invoking generateGuide and
\* without throwing.
C11_GuideRouteValidates ==
    \A r \in 1..MaxRequests :
        http[r].route = "guide" =>
            /\ ~http[r].threw
            /\ http[r].invoked =>
                  /\ http[r].feature.t = "obj"
                  /\ GetProp(http[r].feature, KeyUseCases).t = "arr"
                  /\ http[r].useCase \in Elements(GetProp(http[r].feature, KeyUseCases))
            /\ (http[r].pc = "done" /\ ~http[r].invoked) => http[r].status \in {503, 404}


\* ------------------------------------------------------------------------
\* One invocation of extractFeatures and one of generateGuide, interleaved
\* (specification SpecCore); the payloads of the responses are the smallest
\* ones, the requests sent are what is observed
\* ------------------------------------------------------------------------
NextCore ==
    \/ \E version \in {1, 2}, provider \in Providers : EfStart(version, provider)
    \/ EfReject
    \/ \E stub \in Stubs(0) : EfResolve(stub)
    \/ EfResolveNoText
    \/ EfResume
    \/ \E provider \in Providers : GgStart(provider)
    \/ InfoReject
    \/ \E txt \in InfoTexts : InfoResolve(txt)
    \/ InfoResolveNoText
    \/ InfoResume
    \/ TextReject
    \/ \E txt \in Texts(0) : TextResolve(txt)
    \/ TextResolveNoText
    \/ GgResume

SpecCore == Init /\ [][NextCore]_vars

\* the requests of the log sent on behalf of extractFeatures
IsExtractRequest(q) == q.fn = "extractFeatures"
\* the requests of the log sent on behalf of generateGuide
IsGuideRequest(q) == q.fn # "extractFeatures"

\* C12: every invocation of generateGuide issues exactly two provider
\* requests, the infographic request to gemini whatever the selector and the
\* guide-text request to the selected provider, both already issued while the
\* invocation is suspended on its await, and none is issued again afterwards,
\* whatever the outcomes of the calls; every invocation of extractFeatures
\* issues exactly one provider request, to the selected provider.
C12_RequestsPerInvocation ==
    /\ SelectSeq(requests, IsGuideRequest) =
          IF ggPc = "idle" THEN <<>>
          ELSE << [fn |-> "generateInfographicHTML", to |-> "gemini"],
                  [fn |-> "generateGuide", to |-> ggProvider] >>
    /\ SelectSeq(requests, IsExtractRequest) =
          IF efPc = "idle" THEN <<>>
          ELSE << [fn |-> "extractFeatures", to |-> efProvider] >>

\* both invocations have completed after their provider calls failed, the
\* guide with openai selected, and three requests were sent in all
C12_Witness ==
    /\ ggPc = "done" /\ ggProvider = "openai"
    /\ textCall = Rejected /\ infoCall = Rejected
    /\ efPc = "done" /\ efCall = Rejected
    /\ Len(requests) = 3


\* the step in which the feed fetch of homepage request r fails
FeedFailStep(r) ==
    /\ http[r].route = "home" /\ http[r].pc = "fetching"
    /\ http'[r].feedFailed

\* what every step does about a failed feed fetch and about the cache
FeedFailureLeavesCache ==
    /\ \A r \in 1..MaxRequests :
          FeedFailStep(r) =>
              /\ extractedArticlesCache' = extractedArticlesCache
              /\ http'[r].pc = "done"
              /\ http'[r].status = 500
    /\ \A r \in 1..MaxRequests :
          http'[r].feedFailed => (http'[r].status = 500 /\ ~http'[r].called)
    /\ (extractedArticlesCache' # extractedArticlesCache) =>
          \E r \in 1..MaxRequests :
              /\ http[r].pc \in {"fetching", "extracting"}
              /\ http'[r] # http[r]
              /\ ~http'[r].feedFailed

\* C13: if the feed fetch of a homepage request fails, on a cache miss or
\* with refresh=true, the request is answered with status 500, makes no
\* extractFeatures call, and no step of it changes the cache: the cache is
\* changed only by a request whose feed fetch has succeeded.
C13_FeedFailureLeavesCache == [][FeedFailureLeavesCache]_vars

\* a homepage request whose feed fetch failed has been answered with 500
\* while the cache an earlier request filled is still there
C13_Witness ==
    \E r \in 1..MaxRequests :
        /\ http[r].route = "home" /\ http[r].pc = "done"
        /\ http[r].feedFailed /\ http[r].status = 500 /\ ~http[r].called
        /\ Len(extractedArticlesCache) > 0

\* no homepage request is between its cache miss and its response
NoRefreshInProgress ==
    \A r \in 1..MaxRequests :
        ~(http[r].route = "home" /\ http[r].pc \in {"fetching", "extracting"})

\* C14: under any interleaving of overlapping homepage requests, the cache,
\* once no refresh is in progress, holds the result of a single refresh: at
\* most 10 entries, all pushed by one request, no feed article present
\* twice, every entry with at least one feature and tagged with the provider
\* of the request that extracted it; and no request is served a partially
\* populated cache as a cache hit.
C14_CacheIsOneRefresh ==
    /\ NoRefreshInProgress =>
          /\ Len(extractedArticlesCache) <= SliceLen
          /\ \A i, j \in 1..Len(extractedArticlesCache) :
                /\ extractedArticlesCache[i].by = extractedArticlesCache[j].by
                /\ i # j => extractedArticlesCache[i].item # extractedArticlesCache[j].item
          /\ \A i \in 1..Len(extractedArticlesCache) :
                /\ Greater(Length(extractedArticlesCache[i].features), Num(0))
                /\ extractedArticlesCache[i].extractionProvider
                       = http[extractedArticlesCache[i].by].provider
    /\ \A r \in 1..MaxRequests : ~http[r].partial


====
